---------------------------- MODULE Spec2Model ----------------------------
(***************************************************************************)
(* A model of pyxtal/io.py: the molecule search of a periodic structure    *)
(* (search_molecule_in_crystal), the CIF writer (write_cif) and the        *)
(* resolution of a molecular site from an external structure               *)
(* (structure_from_ext.match, align, make_mol_site).                       *)
(*                                                                         *)
(* Three programs share the module.  Each has its own variables, its own   *)
(* initial condition and next-state relation; the variables of the other   *)
(* two stay at their idle values.                                          *)
(***************************************************************************)
EXTENDS Integers, Sequences, FiniteSets

VARIABLES
    \* search_molecule_in_crystal
    struc,        \* the structure: atom count, who is within the cutoff, who is bonded
    args,         \* keep_order, absolute
    visited,      \* the list of visited sites
    new_sites,    \* the sites the last layer added (the frontier)
    new_members,  \* check_one_layer's accumulator
    k,            \* check_one_layer's position in its loop over the frontier
    n_iter,       \* layers processed
    pc,           \* "loop" | "layer" | "after" | "done"
    result,       \* what the call returned or raised
    \* write_cif
    cif,          \* the call's arguments: the structure, header, sym_num, filename, permission
    file,         \* the contents of the destination file
    out,          \* what the call returned or raised
    cpc,          \* "call" | "done"
    \* structure_from_ext
    ref_mol,      \* self.ref_mol: atomic numbers and bonds of the reference
    molecule,     \* self.molecule: atomic numbers, coordinates, bonds
    pmg_len,      \* len(self.pmg_struc)
    wyc,          \* self.wyc: the orbit, with its multiplicity len(self.wyc)
    lattice,      \* self.lattice: the edge of the (cubic) cell
    position,     \* self.position, once set
    ori,          \* self.ori, once set
    mol_aligned,  \* self.mol_aligned, once set
    site,         \* what make_mol_site returned or raised
    hist          \* one record per call of match(), oldest first

svars == <<struc, args, visited, new_sites, new_members, k, n_iter, pc, result>>

cvars == <<cif, file, out, cpc>>

mvars == <<ref_mol, molecule, pmg_len, wyc, lattice, position, ori, mol_aligned,
           site, hist>>

vars == <<svars, cvars, mvars>>

(***************************************************************************)
(* Bounds of the model.                                                    *)
(***************************************************************************)
MaxAtoms == 3

\* the sites of a structure written, and the largest sym_num tried
MaxSites == 2

MaxSymNum == 2

\* the atoms of a molecule, and the calls of match() on one object
MaxMolAtoms == 2

MaxCalls == 2

\* the floating-point format of the coordinates: Precision significant bits
\* (float64 has 53), the values counted in units of 2^-Scale
Precision == 3

Scale == 5

(***************************************************************************)
(* Helpers.                                                                *)
(***************************************************************************)
Range(s) == {s[i] : i \in DOMAIN s}

\* every enumeration of the finite set S as a list without repetition
Perms(S) ==
    {s \in [1..Cardinality(S) -> S] : \A x \in S : \E i \in DOMAIN s : s[i] = x}

(***************************************************************************)
(* search_molecule_in_crystal                                              *)
(***************************************************************************)
\* atomic numbers of the structures tried: carbon and hydrogen
Elements == {1, 6}

Atoms(n) == 0..(n - 1)

Pairs(n) == {{i, j} : i, j \in Atoms(n)} \ {{i} : i \in Atoms(n)}

\* the Cartesian coordinate of atom i, one per atom
CoordOf(i) == <<10 + i, 20 + 2 * i, 30>>

\* struc.sites[i] (and its periodic images, which carry the same index)
SiteOf(i) == [index |-> i, number |-> struc.numbers[i], coords |-> CoordOf(i)]

\* the indices struc.get_neighbors(site0, 3.0) holds: the atoms with an image
\* within the cutoff of site0.  An image of site0 itself carries site0's index,
\* which is always among the visited, and is left out.
NeighborIds(site0) == {j \in Atoms(struc.n) : {site0.index, j} \in struc.near}

\* struc.get_neighbors(site0, 3.0) in every order it may enumerate them
get_neighbors(site0) ==
    {[i \in DOMAIN p |-> SiteOf(p[i])] : p \in Perms(NeighborIds(site0))}

\* CovalentBond.is_bonded(site0, site1, tol)
is_bonded(site0, site1) == {site0.index, site1.index} \in struc.bonds

Ids(sites) == [i \in DOMAIN sites |-> sites[i].index]

\* line 273-274 without the bond test: every unvisited neighbour is taken
TakesUnbonded(site0, site1, ids) == site1.index \notin Range(ids)

\* line 273-274: site1 is taken when its index is new and it is bonded to site0
Takes(site0, site1, ids) ==
    /\ site1.index \notin Range(ids)
    /\ is_bonded(site0, site1)

\* the loop of check_one_site over neigh_sites from position i on
RECURSIVE ScanNeighbors(_, _, _, _, _)
ScanNeighbors(site0, neigh_sites, i, ids, sites_add) ==
    IF i > Len(neigh_sites) THEN sites_add
    ELSE IF Takes(site0, neigh_sites[i], ids \o Ids(sites_add))
         THEN ScanNeighbors(site0, neigh_sites, i + 1, ids,
                            Append(sites_add, neigh_sites[i]))
         ELSE ScanNeighbors(site0, neigh_sites, i + 1, ids, sites_add)

\* check_one_site: the sites added and the visited list extended by them
check_one_site(site0, vis, neigh_sites) ==
    LET sites_add == ScanNeighbors(site0, neigh_sites, 1, Ids(vis), <<>>)
    IN  [sites_add |-> sites_add, visited |-> vis \o sites_add]

\* line 287: max_iter
max_iter == struc.n

\* the loop goes on always, never breaking on an empty layer
GoesOnNoBreak(n, added) == n < max_iter

\* lines 288, 294-295: the loop goes on after a layer that added `added`
\* with n layers done
GoesOn(n, added) == n < max_iter /\ Len(added) # 0

InitSearchVars ==
    /\ \E n \in 1..MaxAtoms :
         \E first \in Elements, bonds \in SUBSET Pairs(n) :
           \E near \in SUBSET Pairs(n) :
             /\ bonds \subseteq near
             /\ struc = [n |-> n,
                         numbers |-> [i \in Atoms(n) |->
                                        IF i % 2 = 0 THEN first ELSE 7 - first],
                         near |-> near,
                         bonds |-> bonds]
    /\ args \in [keep_order : BOOLEAN, absolute : BOOLEAN]
    \* lines 282-287
    /\ visited = <<SiteOf(0)>>
    /\ new_sites = <<>>
    /\ new_members = <<>>
    /\ k = 0
    /\ n_iter = 0
    /\ pc = "loop"
    /\ result = [status |-> "none"]

\* lines 288-295, first pass: the neighbours of the seed
FirstSite ==
    /\ pc = "loop"
    /\ n_iter = 0
    /\ \E neigh_sites \in get_neighbors(SiteOf(0)) :
         LET r == check_one_site(SiteOf(0), visited, neigh_sites) IN
         /\ new_sites' = r.sites_add
         /\ visited' = r.visited
         /\ n_iter' = n_iter + 1
         /\ pc' = IF GoesOn(n_iter + 1, r.sites_add) THEN "layer" ELSE "after"
    /\ k' = 1
    /\ new_members' = <<>>
    /\ UNCHANGED <<struc, args, result, cvars, mvars>>

\* lines 261-263: check_one_layer handles one site of the frontier
LayerSite ==
    /\ pc = "layer"
    /\ k <= Len(new_sites)
    /\ \E neigh_sites \in get_neighbors(new_sites[k]) :
         LET r == check_one_site(new_sites[k], visited, neigh_sites) IN
         /\ new_members' = new_members \o r.sites_add
         /\ visited' = r.visited
    /\ k' = k + 1
    /\ UNCHANGED <<struc, args, new_sites, n_iter, pc, result, cvars, mvars>>

\* lines 264, 292-295: check_one_layer returns; the layer is counted
LayerEnd ==
    /\ pc = "layer"
    /\ k > Len(new_sites)
    /\ new_sites' = new_members
    /\ new_members' = <<>>
    /\ k' = 1
    /\ n_iter' = n_iter + 1
    /\ pc' = IF GoesOn(n_iter + 1, new_members) THEN "layer" ELSE "after"
    /\ UNCHANGED <<struc, args, visited, result, cvars, mvars>>

\* numpy.argsort of a list of distinct integers: seq[i] is the (0-based)
\* place in ids of the i-th smallest
argsort(ids) ==
    [i \in DOMAIN ids |->
        (CHOOSE j \in DOMAIN ids :
            Cardinality({m \in DOMAIN ids : ids[m] < ids[j]}) = i - 1) - 1]

\* lines 297-308: the lists are built and returned.  coords and numbers are
\* Python lists: a list indexed by the array argsort returns raises TypeError
\* (line 303), and a list has no dot (line 307).
Return ==
    /\ pc = "after"
    /\ LET coords == [i \in DOMAIN visited |-> visited[i].coords]
           numbers == [i \in DOMAIN visited |-> visited[i].number]
       IN  result' =
             IF args.keep_order THEN [status |-> "TypeError"]
             ELSE IF ~args.absolute THEN [status |-> "AttributeError"]
             ELSE [status |-> "ok", coords |-> coords, numbers |-> numbers]
    /\ pc' = "done"
    /\ UNCHANGED <<struc, args, visited, new_sites, new_members, k, n_iter, cvars, mvars>>

NextSearch == FirstSite \/ LayerSite \/ LayerEnd \/ Return

IdleSearch ==
    /\ struc = [n |-> 1, numbers |-> [i \in Atoms(1) |-> 6], near |-> {}, bonds |-> {}]
    /\ args = [keep_order |-> FALSE, absolute |-> TRUE]
    /\ visited = <<>>
    /\ new_sites = <<>>
    /\ new_members = <<>>
    /\ k = 0
    /\ n_iter = 0
    /\ pc = "idle"
    /\ result = [status |-> "none"]

IdleCif ==
    /\ cif = [given |-> FALSE]
    /\ file = <<>>
    /\ out = [status |-> "none"]
    /\ cpc = "idle"

IdleMatch ==
    /\ ref_mol = [numbers |-> <<>>, bonds |-> {}]
    /\ molecule = [numbers |-> <<>>, coords |-> <<>>, bonds |-> {}]
    /\ pmg_len = 0
    /\ wyc = [number |-> 1, mult |-> 1]
    /\ lattice = 1
    /\ position = [set |-> FALSE]
    /\ ori = [set |-> FALSE]
    /\ mol_aligned = [set |-> FALSE]
    /\ site = [status |-> "none"]
    /\ hist = <<>>

InitSearch == InitSearchVars /\ IdleCif /\ IdleMatch

SpecSearch == InitSearch /\ [][NextSearch]_vars

\* the loop is a sequential program: it takes its next step while it has one
FairSearch == SpecSearch /\ WF_vars(NextSearch)


(***************************************************************************)
(* Claims about search_molecule_in_crystal                                 *)
(***************************************************************************)
\* the atoms joined to those of S by one bond
Bonded1(S) == {j \in Atoms(struc.n) : \E i \in S : {i, j} \in struc.bonds}

RECURSIVE Grow(_)
Grow(S) == IF Bonded1(S) \subseteq S THEN S ELSE Grow(S \cup Bonded1(S))

\* the atoms reachable from atom 0 through bonds: the fragment of the seed
Fragment == Grow({0})

NoRepeat(s) == \A i, j \in DOMAIN s : s[i] = s[j] => i = j

\* C1: whatever the structure, the bonds and the order in which neighbours
\* are enumerated, the visited list never repeats an index, starts with the
\* seed and holds only atoms of the seed's fragment; when the loop is left it
\* holds exactly that fragment (the cap of N layers cut nothing off), and a
\* call with the default flags returns the coordinates and numbers of exactly
\* those atoms, in visiting order.
C1_ReturnsFragmentOfSeed ==
    /\ NoRepeat(Ids(visited))
    /\ visited[1].index = 0
    /\ Range(Ids(visited)) \subseteq Fragment
    /\ pc \in {"after", "done"} => Range(Ids(visited)) = Fragment
    /\ (pc = "done" /\ ~args.keep_order /\ args.absolute) =>
          /\ result.status = "ok"
          /\ Len(result.coords) = Cardinality(Fragment)
          /\ Len(result.numbers) = Cardinality(Fragment)
          /\ {<<result.coords[i], result.numbers[i]>> : i \in DOMAIN result.coords}
               = {<<CoordOf(a), struc.numbers[a]>> : a \in Fragment}
          /\ result.coords[1] = CoordOf(0)

\* C1 witness: a returned fragment of two layers, with an atom outside it and
\* an atom within the cutoff of a fragment atom that is not bonded to it
C1_Witness ==
    /\ pc = "done"
    /\ result.status = "ok"
    /\ n_iter = 2
    /\ Cardinality(Fragment) = 2
    /\ Fragment # Atoms(struc.n)
    /\ \E p \in struc.near \ struc.bonds : p \cap Fragment # {}

\* C2 (state part): the layer count never exceeds the atom count, the loop is
\* left only after a layer that added nothing, and no layer before that one
\* added nothing.
C2_LayersBounded ==
    /\ n_iter <= struc.n
    /\ pc \in {"after", "done"} => Len(new_sites) = 0
    /\ pc = "layer" => Len(new_sites) > 0

\* C2: the traversal loop always terminates, its layer count never exceeds
\* the atom count N, and it stops at the first layer that adds no atom.
C2_TerminatesWithinN == [](C2_LayersBounded) /\ <>(pc = "done")

\* C2 witness: a chain of bonded atoms uses all N layers, the last one empty
C2_Witness ==
    /\ pc = "done"
    /\ struc.n >= 3
    /\ n_iter = struc.n
    /\ Len(visited) = struc.n

\* C8: with keep_order the call returns the atoms of the default call sorted
\* by ascending index in the structure, each coordinate with its atom's number.
C8_KeepOrderSortsByIndex ==
    (pc = "done" /\ args.keep_order /\ args.absolute) =>
        /\ result.status = "ok"
        /\ LET seq == argsort(Ids(visited)) IN
           /\ result.coords = [i \in DOMAIN visited |-> visited[seq[i] + 1].coords]
           /\ result.numbers = [i \in DOMAIN visited |-> visited[seq[i] + 1].number]

(***************************************************************************)
(* write_cif                                                               *)
(***************************************************************************)
\* op.as_xyz_string() of the symmetry operators the structures tried use
as_xyz_string(op) ==
    CASE op = "E"    -> "x, y, z"
      [] op = "I"    -> "-x, -y, -z"
      [] op = "2z"   -> "-x, -y, z"
      [] op = "21"   -> "-x, y+1/2, -z"
      [] op = "21c"  -> "-x, y+1/2, -z+1/2"
      [] op = "21n"  -> "-x+1/2, y+1/2, -z+1/2"
      [] op = "c"    -> "x, -y, z+1/2"
      [] op = "cb"   -> "x, -y+1/2, z+1/2"
      [] op = "ca"   -> "-x, y, z+1/2"
      [] op = "n"    -> "x+1/2, -y, z+1/2"
      [] op = "nb"   -> "x+1/2, -y+1/2, z+1/2"

\* struc.group of the structures tried: lattice_type, symbol, number and
\* Wyckoff_positions[0], the general position
Groups ==
    { [lattice_type |-> "triclinic", symbol |-> <<"P", "1">>, number |-> 1,
       G1 |-> <<"E">>],
      [lattice_type |-> "triclinic", symbol |-> <<"P", "-", "1">>, number |-> 2,
       G1 |-> <<"E", "I">>],
      [lattice_type |-> "monoclinic", symbol |-> <<"P", "2", "1">>, number |-> 4,
       G1 |-> <<"E", "21">>],
      [lattice_type |-> "monoclinic", symbol |-> <<"P", "c">>, number |-> 7,
       G1 |-> <<"E", "c">>],
      [lattice_type |-> "monoclinic", symbol |-> <<"P", "2", "1", "/", "c">>,
       number |-> 14, G1 |-> <<"E", "21c", "I", "cb">>],
      [lattice_type |-> "orthorhombic", symbol |-> <<"P", "c", "c", "2">>,
       number |-> 27, G1 |-> <<"E", "2z", "c", "ca">>] }

\* generator lists a first site may carry besides its group's general
\* position: a special position, and the n settings of Pc and P21/c
OtherGenerators == {<<"E">>, <<"E", "n">>, <<"E", "21n", "I", "nb">>}

\* line 30: Group(1).Wyckoff_positions[0], the general position of P1
Group1_G1 == <<"E">>

\* a line of the document
Line(tag, num, text, numbers) ==
    [tag |-> tag, num |-> num, text |-> text, numbers |-> numbers]

\* str.replace(old, new) on a string held as its characters
replace(str, old, new) == [i \in DOMAIN str |-> IF str[i] = old THEN new ELSE str[i]]

\* lines 20-30 with the test `if not sym_num`: a sym_num of 0 counts as unset
SelectedByTruth(c) ==
    IF ~c.sym_num.given \/ c.sym_num.n = 0
    THEN [l_type |-> c.group.lattice_type, symbol |-> c.group.symbol,
          number |-> c.group.number, G1 |-> c.group.G1]
    ELSE [l_type |-> "triclinic", symbol |-> <<"P", "1">>, number |-> 1,
          G1 |-> <<"E">>]

\* lines 20-30: the symmetry selected by sym_num
Selected(c) ==
    IF ~c.sym_num.given
    THEN [l_type |-> c.group.lattice_type, symbol |-> c.group.symbol,
          number |-> c.group.number, G1 |-> c.group.G1]
    ELSE [l_type |-> "triclinic", symbol |-> <<"P", "1">>, number |-> 1,
          G1 |-> Group1_G1]

\* the test of lines 40-41 without the lattice family
change_set_any_family(c) == Selected(c).G1 # c.sites[1].generators

\* lines 39-43: change_set
change_set(c) ==
    /\ Selected(c).l_type = "monoclinic"
    /\ Selected(c).G1 # c.sites[1].generators

\* lines 40-42: the symbol after the test
Symbol(c) ==
    IF change_set(c) THEN replace(Selected(c).symbol, "c", "n")
    ELSE Selected(c).symbol

\* lines 63-66: wps
Wps(c) == IF ~change_set(c) THEN Selected(c).G1 ELSE c.sites[1].generators

\* lines 68-69: the operator loop
SymopLines(wps) ==
    [i \in DOMAIN wps |-> Line("symop", i, <<as_xyz_string(wps[i])>>, <<>>)]

\* lines 85-92: the copies 0 .. sym_num-1 of a molecular site, appended; the
\* fractional coordinate of atom a of copy id of site s is <<s, id, a>>
RECURSIVE Copies(_, _, _, _)
Copies(c, s, id, acc) ==
    IF id >= c.sym_num.n THEN acc
    ELSE Copies(c, s, id + 1,
                [coords |-> acc.coords \o
                      [a \in DOMAIN c.sites[s].species |-> <<s, id, a>>],
                 species |-> acc.species \o c.sites[s].species])

\* lines 79-95: coords and species of site s.  coords is None when a
\* molecular site is expanded over no copy (line 83).
CoordsAndSpecies(c, s) ==
    IF c.molecule
    THEN IF ~c.sym_num.given
         THEN [none |-> FALSE,
               coords |-> [a \in DOMAIN c.sites[s].species |-> <<s, 0, a>>],
               species |-> c.sites[s].species]
         ELSE LET r == Copies(c, s, 0, [coords |-> <<>>, species |-> <<>>])
              IN  [none |-> c.sym_num.n <= 0, coords |-> r.coords,
                   species |-> r.species]
    ELSE [none |-> FALSE, coords |-> <<c.sites[s].position>>,
          species |-> <<c.sites[s].specie>>]

\* lines 96-97: the atom lines of site s, each with occupancy 1
AtomLines(c, s) ==
    LET r == CoordsAndSpecies(c, s) IN
    [a \in DOMAIN r.species |-> Line("atom", 1, <<r.species[a]>>, r.coords[a])]

RECURSIVE AllAtomLines(_, _)
AllAtomLines(c, s) ==
    IF s > Len(c.sites) THEN <<>> ELSE AtomLines(c, s) \o AllAtomLines(c, s + 1)

\* line 96: zip(species, None) raises TypeError
ZipRaises(c) == \E s \in DOMAIN c.sites : CoordsAndSpecies(c, s).none

\* lines 45-98: the document
Document(c) ==
    <<Line("logo", 0, <<>>, <<>>), Line("data_", 0, <<c.header>>, <<>>)>>
    \o (IF c.energy.has
        THEN <<Line("#Energy", 0, <<>>, <<c.energy.value, c.energy.numMols>>)>>
        ELSE <<>>)
    \o <<Line("_symmetry_space_group_name_H-M", 0, Symbol(c), <<>>),
         Line("_symmetry_Int_Tables_number", Selected(c).number, <<>>, <<>>),
         Line("_symmetry_cell_setting", 0, <<Selected(c).l_type>>, <<>>),
         Line("_cell_length_a", 0, <<>>, <<c.lattice[1]>>),
         Line("_cell_length_b", 0, <<>>, <<c.lattice[2]>>),
         Line("_cell_length_c", 0, <<>>, <<c.lattice[3]>>),
         Line("_cell_angle_alpha", 0, <<>>, <<c.lattice[4]>>),
         Line("_cell_angle_beta", 0, <<>>, <<c.lattice[5]>>),
         Line("_cell_angle_gamma", 0, <<>>, <<c.lattice[6]>>),
         Line("loop_symop", 0, <<>>, <<>>)>>
    \o SymopLines(Wps(c))
    \o <<Line("loop_atom", 0, <<>>, <<>>)>>
    \o AllAtomLines(c, 1)
    \o <<Line("#END", 0, <<>>, <<>>)>>

\* a file left by an earlier call
OldFile == <<Line("old", 0, <<>>, <<>>)>>

\* the sites that follow the first one
MoreSites(is_mol, G1, n) ==
    IF is_mol
    THEN [1..n -> {[generators |-> G1, species |-> <<"O", "H">>]}]
    ELSE [1..n -> {[generators |-> G1, specie |-> "O", position |-> <<5, 5, 5>>]}]

FirstSites(is_mol, gens) ==
    IF is_mol
    THEN {[generators |-> g, species |-> sp] :
             g \in gens, sp \in {<<"C">>, <<"C", "H">>}}
    ELSE {[generators |-> g, specie |-> sp, position |-> <<1, 2, 3>>] :
             g \in gens, sp \in {"C", "H"}}

SymNums ==
    {[given |-> FALSE, n |-> 0]} \cup {[given |-> TRUE, n |-> i] : i \in 0..MaxSymNum}

\* a structure that carries an energy is a molecular crystal, with numMols
Energies(is_mol) ==
    {[has |-> FALSE, value |-> 0, numMols |-> 0]}
    \cup (IF is_mol THEN {[has |-> TRUE, value |-> -42, numMols |-> 2]} ELSE {})

InitCifVars ==
    /\ \E group \in Groups, is_mol \in BOOLEAN, n \in 0..(MaxSites - 1) :
         \E first \in FirstSites(is_mol, {group.G1} \cup OtherGenerators),
            more \in MoreSites(is_mol, group.G1, n),
            energy \in Energies(is_mol),
            sym_num \in SymNums,
            header \in {"", "mol"},
            dest \in {[filename |-> "None", permission |-> "w"],
                      [filename |-> "out.cif", permission |-> "w"],
                      [filename |-> "out.cif", permission |-> "a+"]} :
           cif = [group |-> group, molecule |-> is_mol,
                  sites |-> <<first>> \o more, energy |-> energy,
                  lattice |-> <<4, 5, 6, 90, 100, 90>>,
                  sym_num |-> sym_num, header |-> header,
                  filename |-> dest.filename, permission |-> dest.permission]
    /\ file = OldFile
    /\ out = [status |-> "none"]
    /\ cpc = "call"

\* write_cif, whole: the document is built, then returned or written
WriteCif ==
    /\ cpc = "call"
    /\ cpc' = "done"
    /\ IF ZipRaises(cif)
       THEN /\ out' = [status |-> "TypeError"]
            /\ file' = file
       ELSE IF cif.filename = "None"
       THEN /\ out' = [status |-> "returned", lines |-> Document(cif)]
            /\ file' = file
       ELSE /\ out' = [status |-> "written"]
            /\ file' = IF cif.permission = "w" THEN Document(cif)
                       ELSE file \o Document(cif)
    /\ UNCHANGED <<cif, svars, mvars>>

NextCif == WriteCif

InitCif == InitCifVars /\ IdleSearch /\ IdleMatch

SpecCif == InitCif /\ [][NextCif]_vars

(***************************************************************************)
(* Claims about write_cif                                                  *)
(***************************************************************************)
\* the document the call produced: returned, or the part of the file it wrote
Emitted ==
    IF out.status = "returned" THEN out.lines
    ELSE IF cif.permission = "w" THEN file
    ELSE SubSeq(file, Len(OldFile) + 1, Len(file))

Produced == out.status \in {"returned", "written"}

TheLine(doc, tag) == doc[CHOOSE i \in DOMAIN doc : doc[i].tag = tag]

IsSymop(l) == l.tag = "symop"

\* the operator loop lists exactly ops, one line each, numbered from 1 in order
ListsOperators(doc, ops) ==
    LET loop == SelectSeq(doc, IsSymop) IN
    /\ Len(loop) = Len(ops)
    /\ \A i \in DOMAIN loop :
         loop[i].num = i /\ loop[i].text = <<as_xyz_string(ops[i])>>

\* sym is symbol with every 'c' turned into 'n' and nothing else changed
HasNForC(sym, symbol) ==
    /\ Len(sym) = Len(symbol)
    /\ \A i \in DOMAIN symbol :
         sym[i] = (IF symbol[i] = "c" THEN "n" ELSE symbol[i])

\* the monoclinic case: the first site's generators are not the group's G1
Resets == cif.group.lattice_type = "monoclinic"
            /\ cif.sites[1].generators # cif.group.G1

\* C3: with sym_num unset, a monoclinic structure whose first site's
\* generators differ from G1 is written with 'c' replaced by 'n' in the symbol
\* and with the site's generators in the operator loop; every other structure
\* is written with its symbol unmodified and G1 in the loop.
C3_MonoclinicSubstitution ==
    (cpc = "done" /\ ~cif.sym_num.given) =>
        /\ Produced
        /\ LET sym == TheLine(Emitted, "_symmetry_space_group_name_H-M").text IN
           IF Resets
           THEN /\ HasNForC(sym, cif.group.symbol)
                /\ ListsOperators(Emitted, cif.sites[1].generators)
                /\ ~ListsOperators(Emitted, cif.group.G1)
           ELSE /\ sym = cif.group.symbol
                /\ ListsOperators(Emitted, cif.group.G1)

\* C3 witness: P21/c written with the generators of the n setting
C3_Witness ==
    /\ cpc = "done"
    /\ ~cif.sym_num.given
    /\ Resets
    /\ cif.group.number = 14
    /\ TheLine(Emitted, "_symmetry_space_group_name_H-M").text
         = <<"P", "2", "1", "/", "n">>

\* the symmetry sym_num alone would select
BySymNum ==
    IF ~cif.sym_num.given
    THEN [symbol |-> cif.group.symbol, number |-> cif.group.number,
          family |-> cif.group.lattice_type, ops |-> cif.group.G1]
    ELSE [symbol |-> <<"P", "1">>, number |-> 1, family |-> "triclinic",
          ops |-> <<"E">>]

Declares(doc, symbol, number, family, ops) ==
    /\ TheLine(doc, "_symmetry_space_group_name_H-M").text = symbol
    /\ TheLine(doc, "_symmetry_Int_Tables_number").num = number
    /\ TheLine(doc, "_symmetry_cell_setting").text = <<family>>
    /\ ListsOperators(doc, ops)
    /\ doc[Len(doc)].tag = "#END"

RECURSIVE Pow2(_)
Pow2(n) == IF n = 0 THEN 1 ELSE 2 * Pow2(n - 1)

\* 1.0
One == Pow2(Scale)

Abs(x) == IF x < 0 THEN -x ELSE x

\* the spacing of the representable values around num/den >= 0
RECURSIVE Quantum(_, _, _)
Quantum(num, den, q) ==
    IF num < Pow2(Precision) * q * den THEN q ELSE Quantum(num, den, 2 * q)

\* n/d >= 0 rounded to the nearest integer, ties to the even one
NearestEven(n, d) ==
    LET f == n \div d
        r == n % d
    IN  IF 2 * r < d THEN f
        ELSE IF 2 * r > d THEN f + 1
        ELSE IF f % 2 = 0 THEN f ELSE f + 1

\* the representable value nearest to num/den
RoundRat(num, den) ==
    LET a == Abs(num)
        q == Quantum(a, den, 1)
        m == NearestEven(a, den * q) * q
    IN  IF num < 0 THEN -m ELSE m

fadd(x, y) == RoundRat(x + y, 1)

fsub(x, y) == RoundRat(x - y, 1)

fmul(x, y) == RoundRat(x * y, One)

fdiv(x, y) == RoundRat(x * One, y)

\* np.floor
floor(x) == (x \div One) * One

VAdd(u, v) == [c \in DOMAIN u |-> fadd(u[c], v[c])]

VSub(u, v) == [c \in DOMAIN u |-> fsub(u[c], v[c])]

\* np.mean(coords, axis=0): the rows added in order, the sum divided by their count
RECURSIVE SumRows(_, _, _)
SumRows(coords, i, acc) ==
    IF i > Len(coords) THEN acc ELSE SumRows(coords, i + 1, VAdd(acc, coords[i]))

mean(coords) ==
    LET total == SumRows(coords, 2, coords[1]) IN
    [c \in DOMAIN total |-> fdiv(total[c], Len(coords) * One)]

\* self.lattice.inv_matrix of a cubic cell of edge a: 1/a on the diagonal
inv_matrix(a) == fdiv(One, a * One)

\* v.dot(self.lattice.inv_matrix)
dot_inv(v, a) == [c \in DOMAIN v |-> fmul(v[c], inv_matrix(a))]

\* line 226: position -= np.floor(position)
Reduced(v) == [c \in DOMAIN v |-> fsub(v[c], floor(v[c]))]

(***************************************************************************)
(* structure_from_ext                                                      *)
(***************************************************************************)
Pairs1(n) == {{i, j} : i, j \in 1..n} \ {{i} : i \in 1..n}

RECURSIVE Closure(_, _)
Closure(S, bonds) ==
    LET T == S \cup {j \in UNION bonds : \E i \in S : {i, j} \in bonds}
    IN  IF T = S THEN S ELSE Closure(T, bonds)

Connected(n, bonds) == Closure({1}, bonds) = 1..n

\* the mappings of reference atoms to fragment atoms that keep the element
\* of every atom and the bonds: the isomorphisms of the two labelled graphs
Isos(ref, mol) ==
    IF Len(ref.numbers) # Len(mol.numbers) THEN {}
    ELSE {m \in Perms(1..Len(ref.numbers)) :
            /\ \A i \in DOMAIN m : ref.numbers[i] = mol.numbers[m[i]]
            /\ \A p \in Pairs1(Len(m)) :
                 p \in ref.bonds <=> {m[i] : i \in p} \in mol.bonds}

\* compare_mol_connectivity(ref, mol): whether the graphs are isomorphic, and
\* the mapping found
compare_mol_connectivity(ref, mol) ==
    IF Isos(ref, mol) = {} THEN {[match |-> FALSE, mapping |-> <<>>]}
    ELSE {[match |-> TRUE, mapping |-> m] : m \in Isos(ref, mol)}

\* line 230: the tolerance handed to WP_merge
MergeTol == 2

\* WP_merge(position, lattice, wyc, tol): the position moved onto the special
\* position next to it and the orbit of that position
WP_merge(pt, a, wp, tol) ==
    [position |-> [c \in DOMAIN pt |->
                     IF 4 * pt[c] < One \/ 4 * pt[c] >= 3 * One THEN 0
                     ELSE One \div 2],
     wp |-> [number |-> wp.number, mult |-> wp.mult \div 2]]

\* lines 221-224 with the coordinates left in the fragment's order
ReorderedNumbersOnly(mol, order) ==
    [numbers |-> [i \in DOMAIN order |-> mol.numbers[order[i]]],
     coords |-> mol.coords,
     bonds |-> {p \in Pairs1(Len(order)) : {order[i] : i \in p} \in mol.bonds}]

\* lines 221-224: numbers and coordinates taken in the order of the mapping
Reordered(mol, order) ==
    [numbers |-> [i \in DOMAIN order |-> mol.numbers[order[i]]],
     coords |-> [i \in DOMAIN order |-> mol.coords[order[i]]],
     bonds |-> {p \in Pairs1(Len(order)) : {order[i] : i \in p} \in mol.bonds}]

\* the test of line 228 with <= for <
NeedsMergeOrEqual(n_struc, n_mol, mult) == n_struc <= mult * n_mol

\* line 228: len(self.pmg_struc)/len(self.molecule) < len(self.wyc)
NeedsMerge(n_struc, n_mol, mult) == n_struc < mult * n_mol

\* lines 187-208: align() sets the aligned molecule and the orientation
Align(ref, mol) ==
    [mol_aligned |-> [set |-> TRUE, numbers |-> ref.numbers],
     ori |-> [set |-> TRUE]]

\* where the fragment found in the structure may lie
Bases ==
    { <<-1, One \div 2, 0>>,
      <<One + One \div 2, One \div 4, One \div 2>>,
      <<One \div 2, One \div 2, One \div 2>>,
      <<-(One \div 4), 0, One>> }

\* the fragment's atoms lie a quarter of a unit apart along x
Placed(base, n) ==
    [i \in 1..n |-> VAdd(base, <<(i - 1) * (One \div 4), 0, 0>>)]

\* the generic orbits of the groups tried: P1, P-1 and P21/c
Orbits == {[number |-> 1, mult |-> 1], [number |-> 2, mult |-> 2],
           [number |-> 14, mult |-> 4]}

\* the reference molecules tried: a carbon with hydrogens, or hydrogens alone,
\* bonded as a star around the first atom, as a chain, or not at all
RefNumbers(n) == {[i \in 1..n |-> IF i = 1 THEN 6 ELSE 1], [i \in 1..n |-> 1]}

RefBonds(n) ==
    {{{1, j} : j \in 2..n}, {{j, j + 1} : j \in 1..(n - 1)}, {}}

\* lines 148-165: the object as __init__ leaves it
InitMatchVars ==
    /\ \E n \in 1..MaxMolAtoms :
         \E numbers \in RefNumbers(n), bonds \in RefBonds(n) :
           ref_mol = [numbers |-> numbers, bonds |-> bonds]
    /\ \E n \in 1..MaxMolAtoms :
         \E numbers \in [1..n -> Elements], bonds \in SUBSET Pairs1(n),
            base \in Bases, Z \in {1, 2} :
           /\ Connected(n, bonds)
           /\ molecule = [numbers |-> numbers, coords |-> Placed(base, n),
                          bonds |-> bonds]
           /\ pmg_len = Z * n
    /\ wyc \in Orbits
    /\ lattice \in {1, 2}
    /\ position = [set |-> FALSE]
    /\ ori = [set |-> FALSE]
    /\ mol_aligned = [set |-> FALSE]
    /\ site = [status |-> "none"]
    /\ hist = <<>>

\* lines 214-218 with the position resolved before the test
MatchFailAfterResolving ==
    /\ Len(hist) < MaxCalls
    /\ \E r \in compare_mol_connectivity(ref_mol, molecule) :
         /\ ~r.match
         /\ position' = [set |-> TRUE,
                         v |-> Reduced(dot_inv(mean(molecule.coords), lattice))]
         /\ hist' = Append(hist, [ret |-> "False", mapping |-> r.mapping,
                                  mol |-> molecule, orbit0 |-> wyc,
                                  merges |-> <<>>, position |-> position',
                                  orbit |-> wyc])
    /\ UNCHANGED <<ref_mol, molecule, pmg_len, wyc, lattice, ori, mol_aligned,
                   site, svars, cvars>>

\* lines 214-218: match() on a fragment that is not isomorphic to the reference
MatchFail ==
    /\ Len(hist) < MaxCalls
    /\ \E r \in compare_mol_connectivity(ref_mol, molecule) :
         /\ ~r.match
         /\ hist' = Append(hist, [ret |-> "False", mapping |-> r.mapping,
                                  mol |-> molecule, orbit0 |-> wyc,
                                  merges |-> <<>>, position |-> position,
                                  orbit |-> wyc])
    /\ UNCHANGED <<ref_mol, molecule, pmg_len, wyc, lattice, position, ori,
                   mol_aligned, site, svars, cvars>>

\* lines 214, 219-235: match() on a fragment isomorphic to the reference
MatchOk ==
    /\ Len(hist) < MaxCalls
    /\ \E r \in compare_mol_connectivity(ref_mol, molecule) :
         /\ r.match
         /\ LET order == [i \in 1..Len(ref_mol.numbers) |-> r.mapping[i]]
                re == Reordered(molecule, order)
                tentative == Reduced(dot_inv(mean(re.coords), lattice))
                merge == NeedsMerge(pmg_len, Len(molecule.numbers), wyc.mult)
                merged == WP_merge(tentative, lattice, wyc, MergeTol)
                centred == [i \in DOMAIN re.coords |->
                              VSub(re.coords[i], mean(re.coords))]
                aligned == Align(ref_mol, [re EXCEPT !.coords = centred])
            IN  /\ position' = [set |-> TRUE,
                                v |-> IF merge THEN merged.position ELSE tentative]
                /\ wyc' = IF merge THEN merged.wp ELSE wyc
                /\ molecule' = [re EXCEPT !.coords = centred]
                /\ mol_aligned' = aligned.mol_aligned
                /\ ori' = aligned.ori
                /\ hist' = Append(hist,
                      [ret |-> "True", mapping |-> r.mapping, mol |-> molecule,
                       orbit0 |-> wyc,
                       merges |-> IF merge
                                  THEN <<[pt |-> tentative, wp |-> wyc,
                                          tol |-> MergeTol, ret |-> merged]>>
                                  ELSE <<>>,
                       position |-> position', orbit |-> wyc'])
    /\ UNCHANGED <<ref_mol, pmg_len, lattice, site, svars, cvars>>

\* lines 170-185: make_mol_site(ref)
MakeMolSite ==
    /\ site.status # "ok"
    /\ \E ref \in BOOLEAN :
         site' = IF (ref /\ ~ori.set) \/ ~position.set
                 THEN [status |-> "AttributeError"]
                 ELSE [status |-> "ok",
                       mol |-> IF ref THEN ref_mol.numbers ELSE molecule.numbers,
                       position |-> position.v,
                       ori |-> IF ref THEN "self.ori" ELSE "identity",
                       wp |-> wyc,
                       lattice |-> lattice]
    /\ UNCHANGED <<ref_mol, molecule, pmg_len, wyc, lattice, position, ori,
                   mol_aligned, hist, svars, cvars>>

NextMatch == MatchFail \/ MatchOk \/ MakeMolSite

InitMatch == InitMatchVars /\ IdleSearch /\ IdleCif

SpecMatch == InitMatch /\ [][NextMatch]_vars

(***************************************************************************)
(* Claims about structure_from_ext                                         *)
(***************************************************************************)
\* the calls of match() that returned True
Succeeded == {n \in DOMAIN hist : hist[n].ret = "True"}

\* self.molecule as call n of match() left it
MoleculeAfter(n) == IF n < Len(hist) THEN hist[n + 1].mol ELSE molecule

\* the coordinates of the fragment call n started from, in the reference's order
InReferenceOrder(n) ==
    [i \in DOMAIN hist[n].mapping |-> hist[n].mol.coords[hist[n].mapping[i]]]

\* the fractional centroid of that fragment, before it is reduced
FractionalCentroid(n) == dot_inv(mean(InReferenceOrder(n)), lattice)

\* C5: whenever match() returns True, every component of self.position lies
\* in [0, 1), be it the floor-reduced centroid or the position WP_merge gave.
C5_PositionInUnitCell ==
    \A n \in Succeeded :
        \A c \in DOMAIN hist[n].position.v :
            0 <= hist[n].position.v[c] /\ hist[n].position.v[c] < One

\* C6: whenever match() returns True, the mapping applied is a bijection over
\* the reference's indices and the stored fragment is index-aligned with the
\* reference: atom i of self.molecule is the fragment's atom mapping[i], with
\* the element of reference atom i, its number and its coordinate (taken
\* relative to the centroid, as the fragment is stored centred) moved together.
C6_FragmentAlignedWithReference ==
    \A n \in Succeeded :
        LET h == hist[n]
            after == MoleculeAfter(n)
            centroid == mean(InReferenceOrder(n))
        IN  /\ DOMAIN h.mapping = DOMAIN ref_mol.numbers
            /\ Range(h.mapping) = DOMAIN h.mol.numbers
            /\ NoRepeat(h.mapping)
            /\ DOMAIN after.numbers = DOMAIN ref_mol.numbers
            /\ DOMAIN after.coords = DOMAIN ref_mol.numbers
            /\ \A i \in DOMAIN ref_mol.numbers :
                 /\ after.numbers[i] = h.mol.numbers[h.mapping[i]]
                 /\ after.numbers[i] = ref_mol.numbers[i]
                 /\ after.coords[i] = VSub(h.mol.coords[h.mapping[i]], centroid)

\* C6 witness: a fragment found as <<H, C>> matched to the reference <<C, H>>
C6_Witness ==
    /\ hist # <<>>
    /\ hist[1].ret = "True"
    /\ hist[1].mapping = <<2, 1>>
    /\ ref_mol.numbers = <<6, 1>>
    /\ hist[1].mol.numbers = <<1, 6>>

\* C7: match() on a fragment that is not isomorphic to the reference returns
\* False and changes neither self.molecule nor self.wyc, and sets no position,
\* orientation or aligned molecule; after a failed match none of these is set
\* and make_mol_site has built no site.
C7_FailedMatchLeavesObjectUnresolved ==
    /\ [][(hist' # hist /\ Isos(ref_mol, molecule) = {}) =>
             /\ hist'[Len(hist')].ret = "False"
             /\ UNCHANGED <<molecule, wyc, position, ori, mol_aligned>>]_vars
    /\ []((hist # <<>> /\ hist[Len(hist)].ret = "False") =>
             /\ ~position.set
             /\ ~ori.set
             /\ ~mol_aligned.set
             /\ site.status # "ok")

\* C7 witness: a fragment of the reference's size that is not isomorphic to
\* it; match() returned False and make_mol_site then raised
C7_Witness ==
    /\ hist # <<>>
    /\ hist[Len(hist)].ret = "False"
    /\ Len(ref_mol.numbers) = Len(molecule.numbers)
    /\ site.status = "AttributeError"

\* C9: in a match() that returns True, WP_merge is called, once and with
\* tolerance 2, exactly when the atoms of the structure divided by the atoms of
\* the fragment are fewer than the multiplicity of the orbit; position and
\* orbit are then what it returned.  Otherwise the orbit is left as it was and
\* the position is the floor-reduced fractional centroid of the reordered
\* fragment.
C9_MergeExactlyWhenFewerMolecules ==
    \A n \in Succeeded :
        LET h == hist[n]
            tentative == [c \in DOMAIN FractionalCentroid(n) |->
                            fsub(FractionalCentroid(n)[c],
                                 floor(FractionalCentroid(n)[c]))]
        IN  IF pmg_len < h.orbit0.mult * Len(h.mol.numbers)
            THEN /\ Len(h.merges) = 1
                 /\ h.merges[1].tol = 2
                 /\ h.merges[1].wp = h.orbit0
                 /\ h.merges[1].pt = tentative
                 /\ h.position.v = h.merges[1].ret.position
                 /\ h.orbit = h.merges[1].ret.wp
            ELSE /\ h.merges = <<>>
                 /\ h.orbit = h.orbit0
                 /\ h.position.v = tentative

\* C9 witness: one molecule in the cell of a two-fold orbit is merged by the
\* first match(); the second finds as many molecules as the orbit has places
C9_Witness ==
    /\ Len(hist) = 2
    /\ Succeeded = {1, 2}
    /\ Len(hist[1].merges) = 1
    /\ hist[2].merges = <<>>
    /\ hist[2].orbit0.mult * Len(molecule.numbers) = pmg_len

\* C10: match() called again after a match() that returned True resolves the
\* same position and the same orbit as the first call.
C10_SecondMatchResolvesTheSame ==
    \A n \in Succeeded :
        (n + 1) \in Succeeded =>
            /\ hist[n + 1].position = hist[n].position
            /\ hist[n + 1].orbit = hist[n].orbit

=============================================================================
